---- MODULE Spec2Model ----
(***************************************************************************)
(* Reddit_Orchestrator: the incremental synchronisation pipeline.          *)
(*                                                                         *)
(*   internal/tasks/subreddit_tasks.go   monitorSubreddit, updateMetadata  *)
(*   internal/storage/mongo_storage.go   the three collections             *)
(*   internal/processor/processor.go     ProcessSubredditPosts             *)
(*                                                                         *)
(* Time is counted in clock ticks, TicksPerSec ticks to the second; the    *)
(* zero time.Time is 0 and the clock never shows it.  Strings that the     *)
(* code trims, measures or parses are sequences of one-character strings.  *)
(* A collection is a set of documents; UpdateOne with upsert is one atomic *)
(* step of the store.  Every store or upstream call of a run is a step of  *)
(* its own, so that runs interleave exactly at these calls.                *)
(***************************************************************************)
EXTENDS Integers, Sequences, FiniteSets, TLC

\* ---------------------------------------------------------------- bounds

MaxTime == 3
TicksPerSec == 2
MaxRuns == 2
MaxFetch == 2
MaxApiCalls == 2
MaxBatch == 2
MaxBatchCalls == 2

\* config.LoadConfig: getEnvInt("DEFAULT_LIMIT", 100)
DefaultLimit == 100

Runs == 1..MaxRuns
Sources == {"a", "b"}
Times == 0..MaxTime

\* --------------------------------------------------------------- strings

SP == " "
TAB == "\t"
\* what unicode.IsSpace accepts, within the alphabet of the model
WhiteSpace == {SP, TAB}

RECURSIVE TrimLeft(_)
TrimLeft(s) ==
    IF s # <<>> /\ Head(s) \in WhiteSpace THEN TrimLeft(Tail(s)) ELSE s

RECURSIVE TrimRight(_)
TrimRight(s) ==
    IF s # <<>> /\ s[Len(s)] \in WhiteSpace
    THEN TrimRight(SubSeq(s, 1, Len(s) - 1))
    ELSE s

\* strings.TrimSpace
TrimSpace(s) == TrimRight(TrimLeft(s))

\* strings.Contains(s, c) for a one-character c
Contains(s, c) == \E i \in 1..Len(s) : s[i] = c

DigitVal(c) ==
    CASE c = "0" -> 0 [] c = "1" -> 1 [] c = "2" -> 2 [] c = "3" -> 3
      [] c = "4" -> 4 [] c = "5" -> 5 [] c = "6" -> 6 [] c = "7" -> 7
      [] c = "8" -> 8 [] c = "9" -> 9

IsDigit(c) == c \in {"0", "1", "2", "3", "4", "5", "6", "7", "8", "9"}

RECURSIVE ParseDigits(_, _)
ParseDigits(s, acc) ==
    IF s = <<>> THEN acc ELSE ParseDigits(Tail(s), acc * 10 + DigitVal(Head(s)))

\* strconv.Atoi / strconv.ParseInt(s, 10, 64): an optional sign, then digits
Atoi(s) ==
    LET signed == s # <<>> /\ Head(s) \in {"+", "-"}
        body   == IF signed THEN Tail(s) ELSE s
        ok     == body # <<>> /\ \A i \in 1..Len(body) : IsDigit(body[i])
        mag    == IF ok THEN ParseDigits(body, 0) ELSE 0
    IN  [ok  |-> ok,
         val |-> IF signed /\ Head(s) = "-" THEN 0 - mag ELSE mag]

\* time.Time.Unix(): whole seconds
Unix(t) == t \div TicksPerSec

\* time.Time.IsZero()
IsZero(t) == t = 0

\* ------------------------------------------------------- task parameters

\* an entry of blueberry.TaskParams: missing, or a string
NoParam == [exists |-> FALSE, str |-> <<>>]
Param(s) == [exists |-> TRUE, str |-> s]

\* monitorSubreddit, the limit parameter
ResolveLimit(l) ==
    IF l.exists /\ l.str # <<>> /\ Atoi(l.str).ok /\ Atoi(l.str).val > 0
    THEN Atoi(l.str).val
    ELSE DefaultLimit

\* HasManualTimestamp with every number taken for an override
HasManualTimestamp_AnyNumber(ts) ==
    ts.exists /\ ts.str # <<>> /\ Atoi(ts.str).ok

\* monitorSubreddit, the since_timestamp parameter
HasManualTimestamp(ts) ==
    ts.exists /\ ts.str # <<>> /\ Atoi(ts.str).ok /\ Atoi(ts.str).val > 0

ManualTimestamp(ts) == IF HasManualTimestamp(ts) THEN Atoi(ts.str).val ELSE 0

\* what RegisterTasks schedules: the cap of the config, and no since_timestamp
LimitParams == {Param(<<"7">>)}
SinceParams == {Param(<<>>)}

\* the since_timestamp parameter of a manual trigger: missing, empty, a
\* positive number, zero, a negative number, a signed number, not a number
WideSinceParams ==
    { NoParam, Param(<<>>), Param(<<"1">>), Param(<<"1", "2">>), Param(<<"0">>),
      Param(<<"-", "2">>), Param(<<"+", "3">>), Param(<<"x">>), Param(<<"1", "x">>) }

\* the limit parameter of a manual trigger, likewise
WideLimitParams ==
    { NoParam, Param(<<>>), Param(<<"5">>), Param(<<"0">>), Param(<<"-", "1">>),
      Param(<<"x">>) }

\* ------------------------------------------------------------ raw items

\* models.IngestionPost
RawPost(id, title, score) ==
    [ID |-> id, Title |-> title, Body |-> <<SP, "x">>, Author |-> <<"u">>,
     Score |-> score, CreatedAt |-> 1, Flair |-> <<>>, URL |-> <<"h", SP>>]

RawPosts ==
    { RawPost(<<"a", "b", "c">>, <<"t">>, 1),
      RawPost(<<SP, "a", "b", "c">>, <<"u">>, 2),
      RawPost(<<"a", "b", "d">>, <<"t">>, 3),
      RawPost(<<"a", "b">>, <<"t">>, 4) }

RECURSIVE SeqsUpTo(_, _)
SeqsUpTo(S, n) ==
    IF n = 0 THEN {<<>>}
    ELSE LET shorter == SeqsUpTo(S, n - 1)
         IN  shorter \cup {Append(q, x) : q \in {p \in shorter : Len(p) = n - 1}, x \in S}

\* the position of an item in the listing of the upstream
Rank(p) == p.Score * 10 + Len(p.ID) + Len(p.Title)

\* what GetSubredditPosts may return: up to MaxFetch items in listing order,
\* no id twice
FetchResults ==
    {q \in SeqsUpTo(RawPosts, MaxFetch) :
        \A i, j \in 1..Len(q) :
            i < j => /\ TrimSpace(q[i].ID) # TrimSpace(q[j].ID)
                     /\ Rank(q[i]) < Rank(q[j])}

\* raw items around the validity tests of the processor: a plain one, ids
\* with a space and with a tab inside, an id and a title of white space
\* only, an id of two characters, an id padded with white space
ProcItems ==
    { RawPost(<<"a", "b", "c">>, <<"t">>, 1),
      RawPost(<<"a", SP, "b">>, <<"t">>, 2),
      RawPost(<<"a", TAB, "b">>, <<"t">>, 3),
      RawPost(<<TAB, SP>>, <<"t">>, 4),
      RawPost(<<"a", "b", "d">>, <<SP, TAB>>, 5),
      RawPost(<<SP, "a", "b", TAB>>, <<"t">>, 6),
      RawPost(<<TAB, "a", "b", "d", SP>>, <<SP, "u">>, 7) }

\* what GetSubredditPosts may return of them, in any order
ProcInputs == SeqsUpTo(ProcItems, MaxFetch)

\* ------------------------------------------------------------- processor

\* the validity test of ProcessSubredditPosts on the trimmed id and title
Accepts(redditID, title) ==
    /\ ~(redditID = <<>> \/ title = <<>>)
    /\ ~(Len(redditID) < 3 \/ Contains(redditID, SP))

\* ProcessedPost with the Subreddit field left unset
ProcessedPost_NoSubreddit(p, subreddit, t) ==
    [RedditID   |-> TrimSpace(p.ID),
     Title      |-> TrimSpace(p.Title),
     Body       |-> TrimSpace(p.Body),
     Author     |-> TrimSpace(p.Author),
     Score      |-> p.Score,
     Subreddit  |-> "",
     URL        |-> TrimSpace(p.URL),
     Flair      |-> TrimSpace(p.Flair),
     CreatedAt  |-> p.CreatedAt,
     InsertedAt |-> t,
     UpdatedAt  |-> t]

\* the models.Post built from one accepted item
ProcessedPost(p, subreddit, t) ==
    [RedditID   |-> TrimSpace(p.ID),
     Title      |-> TrimSpace(p.Title),
     Body       |-> TrimSpace(p.Body),
     Author     |-> TrimSpace(p.Author),
     Score      |-> p.Score,
     Subreddit  |-> subreddit,
     URL        |-> TrimSpace(p.URL),
     Flair      |-> TrimSpace(p.Flair),
     CreatedAt  |-> p.CreatedAt,
     InsertedAt |-> t,
     UpdatedAt  |-> t]

RECURSIVE ProcessSubredditPosts(_, _, _)
ProcessSubredditPosts(ingestionPosts, subreddit, t) ==
    IF ingestionPosts = <<>> THEN <<>>
    ELSE LET p    == Head(ingestionPosts)
             rest == ProcessSubredditPosts(Tail(ingestionPosts), subreddit, t)
             post == ProcessedPost(p, subreddit, t)
         IN  IF /\ Accepts(TrimSpace(p.ID), TrimSpace(p.Title))
                /\ ~(post.RedditID = <<>> \/ post.Title = <<>>)
             THEN <<post>> \o rest
             ELSE rest

\* ----------------------------------------------------------------- state

VARIABLES
    now,        \* the wall clock, what time.Now() returns
    metadata,   \* collection subreddit_metadata
    posts,      \* collection subreddit_post
    run,        \* the executions of monitorSubreddit, one record each
    hist,       \* per reddit_id: the first and the last upsert the store applied
    apiCalls,   \* calls of UpsertPost made so far
    batch,      \* a call of UpsertPosts made from outside a run
    configs,    \* collection subreddit_config
    schedules,  \* the scheduler: whether RegisterTasks ran, the schedules it registered
    reply       \* what the last direct call of the post repository returned

\* In a run record, next to the parameters and the locals of
\* monitorSubreddit: cancelled (the
\* context is done), fetchedAt (when the fetch was served), nFetched (how many
\* items it returned), overlapped (the runs in progress when this one
\* started), keysWritten (the ids its upserts stored), mdWrites (the metadata
\* writes it made), result and err (what it returned, and the call that
\* failed).

vars == <<reply, now, metadata, posts, run, hist, apiCalls, batch, configs, schedules>>

IdleRun ==
    [pc |-> "idle", params |-> [limit |-> NoParam, since_timestamp |-> NoParam],
     subreddit |-> "", limit |-> 0, sinceTimestamp |-> 0,
     hasManualTimestamp |-> FALSE, scrapeStartTime |-> 0, fetchedAt |-> 0,
     ingestionPosts |-> <<>>, nFetched |-> 0, processedPosts |-> <<>>, upNow |-> 0, idx |-> 0,
     successCount |-> 0, errorCount |-> 0, cancelled |-> FALSE,
     overlapped |-> {}, keysWritten |-> {}, mdWrites |-> 0,
     result |-> "none", err |-> "none"]

Active(r) == run[r].pc \notin {"idle", "done"}

\* ------------------------------------------------- collection: metadata

MetaDocs(coll, name) == {d \in coll : d.subreddit_name = name}

\* GetSubredditMetadata: FindOne by subreddit_name; <<>> stands for nil
GetSubredditMetadata(coll, name) ==
    IF MetaDocs(coll, name) = {} THEN <<>>
    ELSE <<CHOOSE d \in MetaDocs(coll, name) : TRUE>>

\* UpsertSubredditMetadata with an empty filter: the update falls on whatever
\* document the collection holds
UpsertSubredditMetadata_NoFilter(coll, md, t) ==
    IF coll = {}
    THEN {[subreddit_name  |-> md.SubredditName,
           last_scraped_at |-> md.LastScrapedAt,
           monitor_config  |-> md.MonitorConfig,
           updated_at      |-> t,
           created_at      |-> t]}
    ELSE LET d == CHOOSE x \in coll : TRUE
         IN  (coll \ {d}) \cup
             {[d EXCEPT !.subreddit_name  = md.SubredditName,
                        !.last_scraped_at = md.LastScrapedAt,
                        !.monitor_config  = md.MonitorConfig,
                        !.updated_at      = t]}

\* UpsertSubredditMetadata that compares with the stored value and keeps the
\* later last_scraped_at
UpsertSubredditMetadata_KeepNewer(coll, md, t) ==
    LET m == MetaDocs(coll, md.SubredditName)
    IN  IF m = {}
        THEN coll \cup {[subreddit_name  |-> md.SubredditName,
                         last_scraped_at |-> md.LastScrapedAt,
                         monitor_config  |-> md.MonitorConfig,
                         updated_at      |-> t,
                         created_at      |-> t]}
        ELSE LET d == CHOOSE x \in m : TRUE
             IN  (coll \ {d}) \cup
                 {[d EXCEPT !.subreddit_name  = md.SubredditName,
                            !.last_scraped_at =
                                IF @ > md.LastScrapedAt THEN @ ELSE md.LastScrapedAt,
                            !.monitor_config  = md.MonitorConfig,
                            !.updated_at      = t]}

\* UpsertSubredditMetadata: UpdateOne(filter, $set/$setOnInsert, upsert)
UpsertSubredditMetadata(coll, md, t) ==
    LET m == MetaDocs(coll, md.SubredditName)
    IN  IF m = {}
        THEN coll \cup {[subreddit_name  |-> md.SubredditName,
                         last_scraped_at |-> md.LastScrapedAt,
                         monitor_config  |-> md.MonitorConfig,
                         updated_at      |-> t,
                         created_at      |-> t]}
        ELSE LET d == CHOOSE x \in m : TRUE
             IN  (coll \ {d}) \cup
                 {[d EXCEPT !.subreddit_name  = md.SubredditName,
                            !.last_scraped_at = md.LastScrapedAt,
                            !.monitor_config  = md.MonitorConfig,
                            !.updated_at      = t]}

\* the stored last_scraped_at of a source in a collection; 0 without document
WatermarkIn(coll, name) ==
    IF MetaDocs(coll, name) = {} THEN 0
    ELSE (CHOOSE d \in MetaDocs(coll, name) : TRUE).last_scraped_at

\* the stored last_scraped_at of a source
Watermark(name) == WatermarkIn(metadata, name)

\* ---------------------------------------------------- collection: posts

PostDocs(coll, id) == {d \in coll : d.reddit_id = id}

\* the document of a post
PostDoc(post) ==
    [reddit_id   |-> post.RedditID,
     title       |-> post.Title,
     body        |-> post.Body,
     author      |-> post.Author,
     score       |-> post.Score,
     subreddit   |-> post.Subreddit,
     url         |-> post.URL,
     flair       |-> post.Flair,
     created_at  |-> post.CreatedAt,
     updated_at  |-> post.UpdatedAt,
     inserted_at |-> post.InsertedAt]

\* PostUpdateOne as an insert: no filter on reddit_id, no unique index
PostUpdateOne_InsertAlways(coll, post) == coll \cup {PostDoc(post)}

\* PostUpdateOne with inserted_at under $set
PostUpdateOne_InsertedAtInSet(coll, post) ==
    (coll \ PostDocs(coll, post.RedditID)) \cup {PostDoc(post)}

\* PostUpdateOne with every field under $setOnInsert
PostUpdateOne_SetOnInsertOnly(coll, post) ==
    IF PostDocs(coll, post.RedditID) = {} THEN coll \cup {PostDoc(post)} ELSE coll

\* UpdateOne({reddit_id}, $set all fields but inserted_at,
\*           $setOnInsert inserted_at, upsert)
PostUpdateOne(coll, post) ==
    LET m == PostDocs(coll, post.RedditID)
    IN  IF m = {}
        THEN coll \cup {PostDoc(post)}
        ELSE LET d == CHOOSE x \in m : TRUE
             IN  (coll \ {d}) \cup
                 {[d EXCEPT !.reddit_id  = post.RedditID,
                            !.title      = post.Title,
                            !.body       = post.Body,
                            !.author     = post.Author,
                            !.score      = post.Score,
                            !.subreddit  = post.Subreddit,
                            !.url        = post.URL,
                            !.flair      = post.Flair,
                            !.created_at = post.CreatedAt,
                            !.updated_at = post.UpdatedAt]}

\* UpsertPost / UpsertPosts: the timestamps a post gets before its UpdateOne
Stamp(post, t) ==
    [post EXCEPT !.UpdatedAt  = t,
                 !.InsertedAt = IF IsZero(post.InsertedAt) THEN t ELSE @]

\* UpsertPosts: the filter that keeps and cleans the valid posts
RECURSIVE ValidPosts(_)
ValidPosts(ps) ==
    IF ps = <<>> THEN <<>>
    ELSE LET p == Head(ps)
         IN  IF TrimSpace(p.RedditID) # <<>> /\ TrimSpace(p.Title) # <<>>
             THEN <<[p EXCEPT !.RedditID = TrimSpace(p.RedditID),
                              !.Title    = TrimSpace(p.Title),
                              !.Body     = TrimSpace(p.Body),
                              !.Author   = TrimSpace(p.Author),
                              !.URL      = TrimSpace(p.URL),
                              !.Flair    = TrimSpace(p.Flair)]>>
                  \o ValidPosts(Tail(ps))
             ELSE ValidPosts(Tail(ps))

\* UpsertPostsEntry without the return of nil for an empty input
UpsertPostsEntry_EmptyIsError(ps) ==
    IF Len(ValidPosts(ps)) = 0 THEN "novalid" ELSE "loop"

\* UpsertPosts before its loop: "nil" for an empty input, "novalid" when the
\* filter leaves nothing, "loop" otherwise
UpsertPostsEntry(ps) ==
    IF Len(ps) = 0 THEN "nil"
    ELSE IF Len(ValidPosts(ps)) = 0 THEN "novalid"
    ELSE "loop"

\* BatchResult with any failed upsert failing the batch
BatchResult_AnyError(successCount, errorCount) ==
    IF errorCount > 0 THEN "allfailed" ELSE "nil"

\* UpsertPosts after its loop
BatchResult(successCount, errorCount) ==
    IF errorCount > 0 /\ successCount = 0 THEN "allfailed" ELSE "nil"

\* a models.Post as a caller of UpsertPost builds it
ApiPost(id, title, ins) ==
    [RedditID |-> id, Title |-> title, Body |-> <<>>, Author |-> <<"u">>,
     Score |-> 9, Subreddit |-> "a", URL |-> <<>>, Flair |-> <<>>,
     CreatedAt |-> 1, InsertedAt |-> ins, UpdatedAt |-> 0]

\* the posts UpsertPost is called with
ApiPosts ==
    { ApiPost(<<"a", "b", "c">>, <<"v">>, 0),
      ApiPost(<<"a", "b", "c">>, <<"w">>, 1),
      ApiPost(<<"a", "b", "c">>, <<>>, 0),
      ApiPost(<<>>, <<"v">>, 0) }

\* the posts stored ahead of GetRecentPosts: two of subreddit "a" and one of
\* subreddit "b" that was created upstream at the latest time of the model
QueryPosts ==
    { ApiPost(<<"a", "b", "c">>, <<"v">>, 0),
      ApiPost(<<"a", "b", "d">>, <<"v">>, 0),
      [ApiPost(<<"a", "b", "e">>, <<"v">>, 0) EXCEPT !.Subreddit = "b",
                                                     !.CreatedAt = MaxTime] }

\* time.Hour in ticks
TicksPerHour == 3600 * TicksPerSec

\* the hours GetRecentPosts is called with
QueryHours == {-1, 0, 1}

\* GetRecentPosts: cutoff := time.Now().Add(-time.Duration(hours) * time.Hour)
Cutoff(t, hours) == t - hours * TicksPerHour

\* the filter of GetRecentPosts without its updated_at branch
GetRecentPostsFilter_CreatedOnly(coll, subreddit, cutoff) ==
    {d \in coll : d.subreddit = subreddit /\ d.created_at >= cutoff}

\* GetRecentPosts: the documents its filter matches
GetRecentPostsFilter(coll, subreddit, cutoff) ==
    {d \in coll : /\ d.subreddit = subreddit
                  /\ \/ d.created_at >= cutoff
                     \/ d.updated_at >= cutoff}

\* GetRecentPosts: SetSort(created_at, -1); documents of equal created_at come
\* in an order the store chooses
SortedByCreatedAtDesc(S) ==
    {q \in [1..Cardinality(S) -> S] :
        /\ \A i, j \in 1..Cardinality(S) : i # j => q[i] # q[j]
        /\ \A i, j \in 1..Cardinality(S) :
               i < j => q[i].created_at >= q[j].created_at}

\* GetRecentPosts at time t: every slice it may return
GetRecentPosts(coll, subreddit, hours, t) ==
    SortedByCreatedAtDesc(GetRecentPostsFilter(coll, subreddit, Cutoff(t, hours)))

\* every reddit_id the model can store
Keys ==
    {TrimSpace(p.ID) : p \in RawPosts} \cup {p.RedditID : p \in ApiPosts}
        \cup {p.RedditID : p \in QueryPosts}

NoHist == [seen |-> FALSE, first |-> 0, last |-> ApiPost(<<>>, <<>>, 0)]

\* the store applied an upsert of post
Record(h, post) ==
    [h EXCEPT ![post.RedditID] =
        [seen  |-> TRUE,
         first |-> IF @.seen THEN @.first ELSE post.InsertedAt,
         last  |-> post]]

\* --------------------------------------------------- collection: config

\* config.LoadConfig: getEnv("SUBREDDIT_SCHEDULE", "@every 1h")
SubredditSchedule == "@every 1h"

\* the order of subreddit names, as the store compares strings
NameOrder == <<"a", "b", "c", "d">>

NameIndex(n) == CHOOSE i \in 1..Len(NameOrder) : NameOrder[i] = n

\* a models.SubredditConfig as a caller of UpsertSubredditConfig builds it
Config(name, enabled, maxPosts, priority) ==
    [SubredditName |-> name, Enabled |-> enabled, Schedule |-> "",
     MaxPosts |-> maxPosts, Priority |-> priority, Description |-> "",
     CreatedAt |-> 0, UpdatedAt |-> 0]

\* the configs written for the sources of the runs: enabled or not, without
\* cap, with a cap of one and of two digits
SchedConfigs ==
    {Config(n, e, m, 1) : n \in Sources, e \in BOOLEAN, m \in {0, 5, 12}}

\* the configs written to probe the listing: priorities 1, 5, 5, 0 for the
\* names b, a, c, d, and for each name one other config, disabled or of
\* another priority
ListConfigs ==
    { Config("b", TRUE, 0, 1), Config("a", TRUE, 0, 5),
      Config("c", TRUE, 0, 5), Config("d", TRUE, 0, 0),
      Config("a", FALSE, 0, 5), Config("b", TRUE, 0, 5),
      Config("c", FALSE, 0, 1), Config("d", TRUE, 0, 5) }

\* one enabled config per source of the runs
PlainConfigs == {Config(n, TRUE, 0, 1) : n \in Sources}

ConfigDocs(coll, name) == {d \in coll : d.subreddit_name = name}

\* UpsertSubredditConfig: UpdateOne(filter, $set/$setOnInsert, upsert)
UpsertSubredditConfig(coll, config, t) ==
    LET m == ConfigDocs(coll, config.SubredditName)
        created == IF IsZero(config.CreatedAt) THEN t ELSE config.CreatedAt
    IN  IF m = {}
        THEN coll \cup {[subreddit_name |-> config.SubredditName,
                         enabled        |-> config.Enabled,
                         schedule       |-> config.Schedule,
                         max_posts      |-> config.MaxPosts,
                         priority       |-> config.Priority,
                         description    |-> config.Description,
                         updated_at     |-> t,
                         created_at     |-> created]}
        ELSE LET d == CHOOSE x \in m : TRUE
             IN  (coll \ {d}) \cup
                 {[d EXCEPT !.subreddit_name = config.SubredditName,
                            !.enabled        = config.Enabled,
                            !.schedule       = config.Schedule,
                            !.max_posts      = config.MaxPosts,
                            !.priority       = config.Priority,
                            !.description    = config.Description,
                            !.updated_at     = t]}

\* DeleteSubredditConfig: DeleteOne by subreddit_name
DeleteSubredditConfig(coll, name) ==
    IF ConfigDocs(coll, name) = {} THEN coll
    ELSE coll \ {CHOOSE x \in ConfigDocs(coll, name) : TRUE}

\* SortsBefore with the priority ascending
SortsBefore_PriorityAscending(c1, c2) ==
    \/ c1.priority < c2.priority
    \/ /\ c1.priority = c2.priority
       /\ NameIndex(c1.subreddit_name) < NameIndex(c2.subreddit_name)

\* the sort of GetActiveSubredditConfigs: priority descending, then
\* subreddit_name ascending
SortsBefore(c1, c2) ==
    \/ c1.priority > c2.priority
    \/ /\ c1.priority = c2.priority
       /\ NameIndex(c1.subreddit_name) < NameIndex(c2.subreddit_name)

RECURSIVE Sorted(_)
Sorted(docs) ==
    IF docs = {} THEN <<>>
    ELSE LET first == CHOOSE x \in docs : \A y \in docs \ {x} : SortsBefore(x, y)
         IN  <<first>> \o Sorted(docs \ {first})

\* GetActiveSubredditConfigs: Find({enabled: true}) with that sort
GetActiveSubredditConfigs(coll) == Sorted({d \in coll : d.enabled = TRUE})

Digits == <<"0", "1", "2", "3", "4", "5", "6", "7", "8", "9">>

\* fmt.Sprintf("%d", n)
RECURSIVE Itoa(_)
Itoa(n) ==
    IF n < 0 THEN <<"-">> \o Itoa(0 - n)
    ELSE IF n < 10 THEN <<Digits[n + 1]>>
    ELSE Itoa(n \div 10) \o <<Digits[(n % 10) + 1]>>

\* the scheduler before RegisterTasks has run
NoSchedules == [state |-> "none", list |-> <<>>]

\* the schedule RegisterTasks registers for an active config
ScheduleOf(c) ==
    [params   |-> [subreddit       |-> c.subreddit_name,
                   limit           |-> Param(Itoa(c.max_posts)),
                   since_timestamp |-> Param(<<>>)],
     schedule |-> IF c.schedule = "" THEN SubredditSchedule ELSE c.schedule]

\* ------------------------------------------- UpsertPosts, called directly

\* the posts a caller of UpsertPosts passes: two that the filter keeps, one
\* whose reddit_id and one whose title are empty once trimmed
BatchPosts ==
    { ApiPost(<<"a", "b", "c">>, <<"v">>, 0),
      ApiPost(<<SP, "a", "b", "d">>, <<"w", SP>>, 1),
      ApiPost(<<SP>>, <<"v">>, 0),
      ApiPost(<<"a", "b", "c">>, <<TAB>>, 0) }

BatchInputs == SeqsUpTo(BatchPosts, MaxBatch)

\* the locals of UpsertPosts; before is the collection as the call found it,
\* calls the number of calls made
IdleBatch ==
    [pc |-> "idle", posts |-> <<>>, upNow |-> 0, idx |-> 0,
     successCount |-> 0, errorCount |-> 0, result |-> "none",
     before |-> {}, calls |-> 0]

\* UpsertPosts is called: it returns at once for an empty input and for an
\* input without valid post, and enters its loop otherwise
UpsertPostsCall(ps) ==
    /\ batch.pc \in {"idle", "done"}
    /\ batch.calls < MaxBatchCalls
    /\ batch' =
          LET b == [IdleBatch EXCEPT !.posts = ps, !.before = posts,
                                     !.calls = batch.calls + 1]
          IN  IF UpsertPostsEntry(ps) = "loop"
              THEN [b EXCEPT !.pc = "loop", !.upNow = now, !.idx = 1]
              ELSE [b EXCEPT !.pc = "done", !.result = UpsertPostsEntry(ps)]
    /\ UNCHANGED <<reply, now, metadata, posts, run, hist, apiCalls, configs, schedules>>

\* the loop of UpsertPosts moves on, or ends and UpsertPosts returns
BatchLoopStep(b) ==
    IF b.idx < Len(ValidPosts(b.posts))
    THEN [b EXCEPT !.idx = @ + 1]
    ELSE [b EXCEPT !.pc = "done",
                   !.result = BatchResult(b.successCount, b.errorCount)]

\* the post the loop is at
BatchPost(b) == Stamp(ValidPosts(b.posts)[b.idx], b.upNow)

\* one UpdateOne of the loop succeeds
UpsertPostsOK ==
    /\ batch.pc = "loop"
    /\ posts' = PostUpdateOne(posts, BatchPost(batch))
    /\ hist' = Record(hist, BatchPost(batch))
    /\ batch' = BatchLoopStep([batch EXCEPT !.successCount = @ + 1])
    /\ UNCHANGED <<reply, now, metadata, run, apiCalls, configs, schedules>>

\* one UpdateOne of the loop returns an error
UpsertPostsFail ==
    /\ batch.pc = "loop"
    /\ batch' = BatchLoopStep([batch EXCEPT !.errorCount = @ + 1])
    /\ UNCHANGED <<reply, now, metadata, posts, run, hist, apiCalls, configs, schedules>>

\* ------------------------------------------- replies of the repository

\* no direct call was made yet
NoReply == [op |-> "none"]

\* UpsertPost(post) returned err: "nil", "invalid" for its validation error,
\* "store" for the error of UpdateOne
UpsertPostReply(p, err) == [op |-> "UpsertPost", post |-> p, err |-> err]

\* GetRecentPosts(subreddit, hours) returned the slice out and err: "nil", or
\* "find" for the error of Find or of cursor.All
GetRecentPostsReply(subreddit, hours, out, err) ==
    [op |-> "GetRecentPosts", subreddit |-> subreddit, hours |-> hours,
     posts |-> out, err |-> err]

\* ------------------------------------------------------------------ Init

Init ==
    /\ now = TicksPerSec
    /\ metadata = {}
    /\ posts = {}
    /\ run = [r \in Runs |-> IdleRun]
    /\ hist = [k \in Keys |-> NoHist]
    /\ apiCalls = 0
    /\ batch = IdleBatch
    /\ configs = {}
    /\ schedules = NoSchedules
    /\ reply = NoReply

\* ----------------------------------------------------------------- clock

Tick ==
    /\ now < MaxTime
    /\ now' = now + 1
    /\ UNCHANGED <<reply, metadata, posts, run, hist, apiCalls, batch, configs, schedules>>

\* ------------------------------------------------------ monitorSubreddit

\* monitorSubreddit returns: its locals are gone; what stays is what the run
\* was and did
Returned(rec) ==
    [IdleRun EXCEPT !.pc = "done",
                    !.subreddit = rec.subreddit,
                    !.sinceTimestamp = rec.sinceTimestamp,
                    !.hasManualTimestamp = rec.hasManualTimestamp,
                    !.scrapeStartTime = rec.scrapeStartTime,
                    !.fetchedAt = rec.fetchedAt,
                    !.cancelled = rec.cancelled,
                    !.overlapped = rec.overlapped,
                    !.keysWritten = rec.keysWritten,
                    !.nFetched = rec.nFetched,
                    !.successCount = rec.successCount,
                    !.errorCount = rec.errorCount,
                    !.mdWrites = rec.mdWrites,
                    !.err = rec.err]

\* the run returns err: Failed
Failed(rec, why) == [Returned(rec) EXCEPT !.result = "failed", !.err = why]

\* the run returns nil: Success
Succeeded(rec) == [Returned(rec) EXCEPT !.result = "success"]

\* the scheduler or a manual trigger starts a run; the parameters are read.
\* With a manual since_timestamp the metadata is not read and the start time
\* is taken at once.  Runs take their records in the order they start.
Start(r, s, l, ts) ==
    /\ run[r].pc = "idle"
    /\ \A q \in Runs : q < r => run[q].pc # "idle"
    /\ s # ""
    /\ run' = [run EXCEPT ![r] =
          [@ EXCEPT !.params = [limit |-> l, since_timestamp |-> ts],
                    !.subreddit = s,
                    !.limit = ResolveLimit(l),
                    !.sinceTimestamp = ManualTimestamp(ts),
                    !.hasManualTimestamp = HasManualTimestamp(ts),
                    !.scrapeStartTime = IF HasManualTimestamp(ts) THEN now ELSE 0,
                    !.overlapped = {q \in Runs : Active(q)},
                    !.pc = IF HasManualTimestamp(ts) THEN "fetch" ELSE "getmeta"]]
    /\ UNCHANGED <<reply, now, metadata, posts, hist, apiCalls, batch, configs, schedules>>

\* the subreddit parameter is missing or empty
StartInvalid(r) ==
    /\ run[r].pc = "idle"
    /\ \A q \in Runs : q < r => run[q].pc # "idle"
    /\ run' = [run EXCEPT ![r] = Failed(@, "param")]
    /\ UNCHANGED <<reply, now, metadata, posts, hist, apiCalls, batch, configs, schedules>>

\* the context of the run is cancelled (deadline, shutdown)
Cancel(r) ==
    /\ Active(r)
    /\ ~run[r].cancelled
    /\ run' = [run EXCEPT ![r].cancelled = TRUE]
    /\ UNCHANGED <<reply, now, metadata, posts, hist, apiCalls, batch, configs, schedules>>

\* the since bound resolved from what GetSubredditMetadata returned
SinceFrom(found) ==
    IF found # <<>> /\ ~IsZero(found[1].last_scraped_at)
    THEN Unix(found[1].last_scraped_at)
    ELSE 0

\* GetMetaOK with updateMetadata called before the fetch
GetMetaOK_WriteFirst(r) ==
    /\ run[r].pc = "getmeta"
    /\ ~run[r].cancelled
    /\ run' = [run EXCEPT ![r] =
          [@ EXCEPT !.sinceTimestamp =
                        SinceFrom(GetSubredditMetadata(metadata, run[r].subreddit)),
                    !.scrapeStartTime = now,
                    !.pc = "updmeta"]]
    /\ UNCHANGED <<reply, now, metadata, posts, hist, apiCalls, batch, configs, schedules>>

\* GetSubredditMetadata returns; the start time is taken
GetMetaOK(r) ==
    /\ run[r].pc = "getmeta"
    /\ ~run[r].cancelled
    /\ run' = [run EXCEPT ![r] =
          [@ EXCEPT !.sinceTimestamp =
                        SinceFrom(GetSubredditMetadata(metadata, run[r].subreddit)),
                    !.scrapeStartTime = now,
                    !.pc = "fetch"]]
    /\ UNCHANGED <<reply, now, metadata, posts, hist, apiCalls, batch, configs, schedules>>

\* GetSubredditMetadata returns an error
GetMetaFail(r) ==
    /\ run[r].pc = "getmeta"
    /\ run' = [run EXCEPT ![r] = Failed(@, "getmeta")]
    /\ UNCHANGED <<reply, now, metadata, posts, hist, apiCalls, batch, configs, schedules>>

\* FetchFail with the return after the error left out: the nil slice is taken
\* for an empty fetch
FetchFail_NoReturn(r) ==
    /\ run[r].pc = "fetch"
    /\ run' = [run EXCEPT ![r] = [@ EXCEPT !.err = "fetch", !.fetchedAt = now,
                                           !.pc = "updmeta"]]
    /\ UNCHANGED <<reply, now, metadata, posts, hist, apiCalls, batch, configs, schedules>>

\* FetchFail with the metadata written before the error is returned
FetchFail_WritesWatermark(r) ==
    /\ run[r].pc = "fetch"
    /\ metadata' = UpsertSubredditMetadata(metadata,
                       [SubredditName |-> run[r].subreddit,
                        LastScrapedAt |-> run[r].scrapeStartTime,
                        MonitorConfig |-> [enabled |-> TRUE,
                                           max_posts |-> run[r].limit]], now)
    /\ run' = [run EXCEPT ![r] = Failed([@ EXCEPT !.mdWrites = @ + 1], "fetch")]
    /\ UNCHANGED <<reply, now, posts, hist, apiCalls, batch, configs, schedules>>

\* GetSubredditPosts returns an error
FetchFail(r) ==
    /\ run[r].pc = "fetch"
    /\ run' = [run EXCEPT ![r] = Failed(@, "fetch")]
    /\ UNCHANGED <<reply, now, metadata, posts, hist, apiCalls, batch, configs, schedules>>

\* AfterFetch with the empty fetch returning nil at once, the metadata left
\* as it is
AfterFetch_EmptyReturns(rec, items, t) ==
    LET processed == ProcessSubredditPosts(items, rec.subreddit, t)
        got == [rec EXCEPT !.ingestionPosts = items, !.nFetched = Len(items),
                           !.fetchedAt = t, !.processedPosts = processed]
    IN  IF Len(items) = 0 \/ Len(processed) = 0
        THEN Succeeded(got)
        ELSE [got EXCEPT !.pc = "upsert", !.upNow = t, !.idx = 1]

\* what monitorSubreddit does with the items the fetch returned, up to its
\* next store call
AfterFetch(rec, items, t) ==
    LET processed == ProcessSubredditPosts(items, rec.subreddit, t)
        got == [rec EXCEPT !.ingestionPosts = items, !.nFetched = Len(items),
                           !.fetchedAt = t]
    IN  IF Len(items) = 0
        THEN [got EXCEPT !.pc = "updmeta"]
        ELSE LET in == [got EXCEPT !.processedPosts = processed]
             IN  CASE UpsertPostsEntry(processed) = "nil" ->
                        [in EXCEPT !.pc = "updmeta"]
                   [] UpsertPostsEntry(processed) = "novalid" ->
                        Failed(in, "persist")
                   [] OTHER ->
                        [in EXCEPT !.pc = "upsert", !.upNow = t, !.idx = 1]

\* GetSubredditPosts returns items
FetchOK(r, items) ==
    /\ run[r].pc = "fetch"
    /\ ~run[r].cancelled
    /\ run' = [run EXCEPT ![r] = AfterFetch(@, items, now)]
    /\ UNCHANGED <<reply, now, metadata, posts, hist, apiCalls, batch, configs, schedules>>

\* AfterUpsertPosts with the error of UpsertPosts logged and not returned
AfterUpsertPosts_ErrorIgnored(rec, res) == [rec EXCEPT !.pc = "updmeta"]

\* what monitorSubreddit does when UpsertPosts has returned res
AfterUpsertPosts(rec, res) ==
    IF res # "nil" THEN Failed(rec, "persist") ELSE [rec EXCEPT !.pc = "updmeta"]

\* the loop of UpsertPosts moves on, or ends and UpsertPosts returns
LoopStep(rec) ==
    IF rec.idx < Len(ValidPosts(rec.processedPosts))
    THEN [rec EXCEPT !.idx = @ + 1]
    ELSE AfterUpsertPosts(rec, BatchResult(rec.successCount, rec.errorCount))

\* the post the loop of UpsertPosts is at
CurrentPost(rec) == Stamp(ValidPosts(rec.processedPosts)[rec.idx], rec.upNow)

\* one UpdateOne of the loop succeeds
UpsertOK(r) ==
    /\ run[r].pc = "upsert"
    /\ ~run[r].cancelled
    /\ posts' = PostUpdateOne(posts, CurrentPost(run[r]))
    /\ hist' = Record(hist, CurrentPost(run[r]))
    /\ run' = [run EXCEPT ![r] =
          LoopStep([@ EXCEPT !.successCount = @ + 1,
                             !.keysWritten = @ \cup {CurrentPost(run[r]).RedditID}])]
    /\ UNCHANGED <<reply, now, metadata, apiCalls, batch, configs, schedules>>

\* UpsertFail with the first failed UpdateOne ending UpsertPosts
UpsertFail_Abort(r) ==
    /\ run[r].pc = "upsert"
    /\ run' = [run EXCEPT ![r] = Failed([@ EXCEPT !.errorCount = @ + 1], "persist")]
    /\ UNCHANGED <<reply, now, metadata, posts, hist, apiCalls, batch, configs, schedules>>

\* one UpdateOne of the loop returns an error
UpsertFail(r) ==
    /\ run[r].pc = "upsert"
    /\ run' = [run EXCEPT ![r] = LoopStep([@ EXCEPT !.errorCount = @ + 1])]
    /\ UNCHANGED <<reply, now, metadata, posts, hist, apiCalls, batch, configs, schedules>>

\* updateMetadata: the document it writes
NewMetadata(rec) ==
    [SubredditName |-> rec.subreddit,
     LastScrapedAt |-> rec.scrapeStartTime,
     MonitorConfig |-> [enabled |-> TRUE, max_posts |-> rec.limit]]

\* UpdateMetaOK with the time of the write stored as last_scraped_at
UpdateMetaOK_CompletionTime(r) ==
    /\ run[r].pc = "updmeta"
    /\ ~run[r].cancelled
    /\ metadata' = UpsertSubredditMetadata(metadata,
                       [NewMetadata(run[r]) EXCEPT !.LastScrapedAt = now], now)
    /\ run' = [run EXCEPT ![r] = Succeeded([@ EXCEPT !.mdWrites = @ + 1])]
    /\ UNCHANGED <<reply, now, posts, hist, apiCalls, batch, configs, schedules>>

\* UpdateMetaOK with the write left out for a run with a manual since_timestamp
UpdateMetaOK_SkipManual(r) ==
    /\ run[r].pc = "updmeta"
    /\ ~run[r].cancelled
    /\ metadata' = IF run[r].hasManualTimestamp THEN metadata
                   ELSE UpsertSubredditMetadata(metadata, NewMetadata(run[r]), now)
    /\ run' = [run EXCEPT ![r] = Succeeded([@ EXCEPT !.mdWrites = @ + 1])]
    /\ UNCHANGED <<reply, now, posts, hist, apiCalls, batch, configs, schedules>>

\* updateMetadata succeeds
UpdateMetaOK(r) ==
    /\ run[r].pc = "updmeta"
    /\ ~run[r].cancelled
    /\ metadata' = UpsertSubredditMetadata(metadata, NewMetadata(run[r]), now)
    /\ run' = [run EXCEPT ![r] = Succeeded([@ EXCEPT !.mdWrites = @ + 1])]
    /\ UNCHANGED <<reply, now, posts, hist, apiCalls, batch, configs, schedules>>

\* UpdateMetaFail with the error logged and nil returned
UpdateMetaFail_Swallowed(r) ==
    /\ run[r].pc = "updmeta"
    /\ run' = [run EXCEPT ![r] = Succeeded([@ EXCEPT !.err = "updmeta"])]
    /\ UNCHANGED <<reply, now, metadata, posts, hist, apiCalls, batch, configs, schedules>>

\* UpsertSubredditMetadata returns an error
UpdateMetaFail(r) ==
    /\ run[r].pc = "updmeta"
    /\ run' = [run EXCEPT ![r] = Failed(@, "updmeta")]
    /\ UNCHANGED <<reply, now, metadata, posts, hist, apiCalls, batch, configs, schedules>>

\* ------------------------------------------------------------ UpsertPost

\* UpsertPostInvalid without the validation: the post is stored
UpsertPostInvalid_NoCheck(p) ==
    /\ apiCalls < MaxApiCalls
    /\ p.RedditID = <<>> \/ p.Title = <<>>
    /\ posts' = PostUpdateOne(posts, Stamp(p, now))
    /\ hist' = Record(hist, Stamp(p, now))
    /\ apiCalls' = apiCalls + 1
    /\ reply' = UpsertPostReply(p, "nil")
    /\ UNCHANGED <<now, metadata, run, batch, configs, schedules>>

\* UpsertPost rejects the post
UpsertPostInvalid(p) ==
    /\ apiCalls < MaxApiCalls
    /\ p.RedditID = <<>> \/ p.Title = <<>>
    /\ apiCalls' = apiCalls + 1
    /\ reply' = UpsertPostReply(p, "invalid")
    /\ UNCHANGED <<now, metadata, posts, run, hist, batch, configs, schedules>>

\* UpsertPost stores the post
UpsertPostOK(p) ==
    /\ apiCalls < MaxApiCalls
    /\ ~(p.RedditID = <<>> \/ p.Title = <<>>)
    /\ posts' = PostUpdateOne(posts, Stamp(p, now))
    /\ hist' = Record(hist, Stamp(p, now))
    /\ apiCalls' = apiCalls + 1
    /\ reply' = UpsertPostReply(p, "nil")
    /\ UNCHANGED <<now, metadata, run, batch, configs, schedules>>

\* UpsertPost: UpdateOne returns an error
UpsertPostFail(p) ==
    /\ apiCalls < MaxApiCalls
    /\ ~(p.RedditID = <<>> \/ p.Title = <<>>)
    /\ apiCalls' = apiCalls + 1
    /\ reply' = UpsertPostReply(p, "store")
    /\ UNCHANGED <<now, metadata, posts, run, hist, batch, configs, schedules>>

\* GetRecentPosts returns the matching posts
GetRecentPostsOK(subreddit, hours) ==
    /\ \E out \in GetRecentPosts(posts, subreddit, hours, now) :
           reply' = GetRecentPostsReply(subreddit, hours, out, "nil")
    /\ UNCHANGED <<now, metadata, posts, run, hist, apiCalls, batch, configs, schedules>>

\* GetRecentPosts: Find or cursor.All returns an error
GetRecentPostsFail(subreddit, hours) ==
    /\ reply' = GetRecentPostsReply(subreddit, hours, <<>>, "find")
    /\ UNCHANGED <<now, metadata, posts, run, hist, apiCalls, batch, configs, schedules>>

\* ------------------------------------------------- configs and schedules

\* RegisterTasks: one schedule per active config, in the order of the
\* listing; the configs for which RegisterSchedule returns an error (refused)
\* are skipped
RegisterTasks(refused) ==
    /\ schedules.state = "none"
    /\ LET active == GetActiveSubredditConfigs(configs)
           all == [i \in 1..Len(active) |-> ScheduleOf(active[i])]
           Taken(e) == e.params.subreddit \notin refused
       IN  schedules' = [state |-> "registered", list |-> SelectSeq(all, Taken)]
    /\ UNCHANGED <<reply, now, metadata, posts, run, hist, apiCalls, batch, configs>>

\* RegisterTask or GetActiveSubredditConfigs returns an error: RegisterTasks
\* returns it and the application does not start
RegisterTasksFail ==
    /\ schedules.state = "none"
    /\ schedules' = [state |-> "failed", list |-> <<>>]
    /\ UNCHANGED <<reply, now, metadata, posts, run, hist, apiCalls, batch, configs>>

\* a config is written to the store
UpsertConfig(c) ==
    /\ configs' = UpsertSubredditConfig(configs, c, now)
    /\ configs' # configs
    /\ UNCHANGED <<reply, now, metadata, posts, run, hist, apiCalls, batch, schedules>>

\* DeleteConfig cascading to the metadata of the source
DeleteConfig_Cascade(name) ==
    /\ ConfigDocs(configs, name) # {}
    /\ configs' = DeleteSubredditConfig(configs, name)
    /\ metadata' = metadata \ MetaDocs(metadata, name)
    /\ UNCHANGED <<reply, now, posts, run, hist, apiCalls, batch, schedules>>

\* a config is deleted from the store
DeleteConfig(name) ==
    /\ ConfigDocs(configs, name) # {}
    /\ configs' = DeleteSubredditConfig(configs, name)
    /\ UNCHANGED <<reply, now, metadata, posts, run, hist, apiCalls, batch, schedules>>

\* the scheduler fires a registered schedule: a run starts with its parameters
ScheduledStart(r, i) ==
    /\ schedules.state = "registered"
    /\ i \in 1..Len(schedules.list)
    /\ Start(r, schedules.list[i].params.subreddit,
                schedules.list[i].params.limit,
                schedules.list[i].params.since_timestamp)

\* ------------------------------------------------------------------ Next

\* the sources a run may be for: the first run is for "a", the sources
\* being interchangeable
SourcesOf(r) == IF r = 1 THEN {"a"} ELSE Sources

\* the runs of the pipeline
RunStep(r) ==
    \/ \E s \in SourcesOf(r), l \in LimitParams, ts \in SinceParams :
          Start(r, s, l, ts)
    \/ StartInvalid(r)
    \/ Cancel(r)
    \/ GetMetaOK(r)
    \/ GetMetaFail(r)
    \/ FetchFail(r)
    \/ \E items \in FetchResults : FetchOK(r, items)
    \/ UpsertOK(r)
    \/ UpsertFail(r)
    \/ UpdateMetaOK(r)
    \/ UpdateMetaFail(r)

\* the record repository called directly
ApiStep ==
    \/ \E p \in ApiPosts : UpsertPostInvalid(p)
    \/ \E p \in ApiPosts : UpsertPostOK(p)
    \/ \E p \in ApiPosts : UpsertPostFail(p)

\* concurrent runs of the pipeline
Next ==
    \/ Tick
    \/ \E r \in Runs : RunStep(r)

Spec == Init /\ [][Next]_vars

\* one run of the pipeline beside direct calls of UpsertPost
NextStore ==
    \/ Tick
    \/ RunStep(1)
    \/ ApiStep

SpecStore == Init /\ [][NextStore]_vars

\* UpsertPosts called directly
NextBatch ==
    \/ Tick
    \/ \E ps \in BatchInputs : UpsertPostsCall(ps)
    \/ UpsertPostsOK
    \/ UpsertPostsFail

SpecBatch == Init /\ [][NextBatch]_vars

\* one run up to the processing of what it fetched, over the raw items that
\* probe the validity tests
NextProc ==
    \/ Tick
    \/ \E s \in Sources, l \in LimitParams, ts \in SinceParams : Start(1, s, l, ts)
    \/ GetMetaOK(1)
    \/ \E items \in ProcInputs : FetchOK(1, items)

SpecProc == Init /\ [][NextProc]_vars

\* manual triggers with any since_timestamp; the runs fetch nothing and
\* write their watermark
NextSince ==
    \/ Tick
    \/ \E r \in Runs : \E s \in SourcesOf(r), l \in LimitParams, ts \in WideSinceParams :
          Start(r, s, l, ts)
    \/ \E r \in Runs : GetMetaOK(r)
    \/ \E r \in Runs : GetMetaFail(r)
    \/ \E r \in Runs : FetchOK(r, <<>>)
    \/ \E r \in Runs : UpdateMetaOK(r)

SpecSince == Init /\ [][NextSince]_vars

\* the configs change, RegisterTasks runs, and runs are started by the
\* schedules it registered and by manual triggers with any limit
NextSched ==
    \/ \E c \in SchedConfigs : UpsertConfig(c)
    \/ \E n \in Sources : DeleteConfig(n)
    \/ \E refused \in SUBSET Sources : RegisterTasks(refused)
    \/ RegisterTasksFail
    \/ \E r \in Runs, i \in 1..Cardinality(Sources) : ScheduledStart(r, i)
    \/ \E r \in Runs : \E s \in SourcesOf(r), l \in WideLimitParams :
          Start(r, s, l, Param(<<>>))

SpecSched == Init /\ [][NextSched]_vars

\* the pending store or upstream call of a run returns, with or without error
Proceed(r) ==
    \/ GetMetaOK(r)
    \/ GetMetaFail(r)
    \/ FetchFail(r)
    \/ \E items \in FetchResults : FetchOK(r, items)
    \/ UpsertOK(r)
    \/ UpsertFail(r)
    \/ UpdateMetaOK(r)
    \/ UpdateMetaFail(r)

\* one run of the pipeline
NextLive ==
    \/ Tick
    \/ RunStep(1)

\* one run of the pipeline in which every call that was made returns
SpecLive == Init /\ [][NextLive]_vars /\ WF_vars(Proceed(1))

\* configs are written and deleted, and RegisterTasks lists the active ones
NextConfig ==
    \/ \E c \in ListConfigs : UpsertConfig(c)
    \/ \E i \in 1..Len(NameOrder) : DeleteConfig(NameOrder[i])
    \/ RegisterTasks({})

SpecConfig == Init /\ [][NextConfig]_vars

\* configs are written and deleted around scheduled runs that fetch, store
\* and write their watermark
NextDelete ==
    \/ \E c \in PlainConfigs : UpsertConfig(c)
    \/ \E n \in Sources : DeleteConfig(n)
    \/ RegisterTasks({})
    \/ \E r \in Runs, i \in 1..Cardinality(Sources) : ScheduledStart(r, i)
    \/ \E r \in Runs : GetMetaOK(r)
    \/ \E r \in Runs, items \in {q \in FetchResults : Len(q) <= 1} : FetchOK(r, items)
    \/ \E r \in Runs : UpsertOK(r)
    \/ \E r \in Runs : UpdateMetaOK(r)

SpecDelete == Init /\ [][NextDelete]_vars

\* posts are stored by UpsertPost and read back by GetRecentPosts as time passes
NextQuery ==
    \/ Tick
    \/ \E p \in QueryPosts : UpsertPostOK(p)
    \/ \E s \in Sources, h \in QueryHours : GetRecentPostsOK(s, h)
    \/ \E s \in Sources, h \in QueryHours : GetRecentPostsFail(s, h)

SpecQuery == Init /\ [][NextQuery]_vars

\* one run from its start to its end, over the raw items that probe the
\* validity tests
NextValid ==
    \/ Tick
    \/ \E s \in Sources, l \in LimitParams, ts \in SinceParams : Start(1, s, l, ts)
    \/ GetMetaOK(1)
    \/ \E items \in ProcInputs : FetchOK(1, items)
    \/ UpsertOK(1)
    \/ UpsertFail(1)
    \/ UpdateMetaOK(1)
    \/ UpdateMetaFail(1)

SpecValid == Init /\ [][NextValid]_vars

\* ================================================================ properties

\* C1: when GetSubredditPosts returns an error, the run returns that error
\* (Failed) at once; the step leaves both collections as they were, and the
\* run has made no metadata write and stored no post.
C1_FetchErrorKeepsWatermark ==
    [][\A r \in Runs :
          (run[r].pc = "fetch" /\ run'[r].err = "fetch") =>
              /\ run'[r].pc = "done"
              /\ run'[r].result = "failed"
              /\ metadata' = metadata
              /\ posts' = posts
              /\ run'[r].mdWrites = 0
              /\ run'[r].keysWritten = {}
              /\ run'[r].successCount = 0]_vars

\* a run has failed on its fetch while its source has a stored watermark
\* older than the clock
C1_Witness ==
    \E r \in Runs :
        /\ run[r].pc = "done"
        /\ run[r].err = "fetch"
        /\ run[r].result = "failed"
        /\ Watermark(run[r].subreddit) # 0
        /\ Watermark(run[r].subreddit) < now

\* C2: a fetch that returns zero items leads straight to the metadata write,
\* with nothing stored; that write, unless UpsertSubredditMetadata itself
\* returns an error, ends the run in Success with the stored last_scraped_at
\* of the source equal to the start time taken before the fetch, and the
\* posts collection untouched.
C2_EmptyFetchAdvancesWatermark ==
    [][\A r \in Runs :
          /\ (run[r].pc = "fetch" /\ run'[r].pc # "fetch" /\ run'[r].err = "none"
                 /\ run'[r].nFetched = 0) =>
                 /\ run'[r].pc = "updmeta"
                 /\ run'[r].scrapeStartTime = run[r].scrapeStartTime
                 /\ metadata' = metadata
                 /\ posts' = posts
          /\ (run[r].pc = "updmeta" /\ run[r].nFetched = 0 /\ run'[r].pc = "done") =>
                 \/ /\ run'[r].err = "updmeta"
                    /\ run'[r].result = "failed"
                    /\ metadata' = metadata
                 \/ /\ run'[r].err = "none"
                    /\ run'[r].result = "success"
                    /\ WatermarkIn(metadata', run[r].subreddit) = run[r].scrapeStartTime
                    /\ run[r].scrapeStartTime # 0
                    /\ run[r].scrapeStartTime <= run[r].fetchedAt
                    /\ posts' = posts
                    /\ run'[r].successCount = 0]_vars

\* a run with an empty fetch has succeeded and its write created the
\* metadata document of its source (there was no watermark before), later
\* than the run started
C2_Witness ==
    \E r \in Runs :
        /\ run[r].pc = "done"
        /\ run[r].result = "success"
        /\ run[r].fetchedAt # 0
        /\ run[r].nFetched = 0
        /\ \E d \in MetaDocs(metadata, run[r].subreddit) :
              /\ d.created_at = d.updated_at
              /\ d.last_scraped_at = run[r].scrapeStartTime
              /\ d.last_scraped_at < d.updated_at
        /\ \A q \in Runs \ {r} : run[q].mdWrites = 0

\* UpsertPosts has failed as a whole
BatchFailed(rec) ==
    \/ rec.err = "persist"
    \/ rec.errorCount > 0 /\ rec.successCount = 0

\* C3: the metadata write is pending only after the fetch returned nothing
\* to store or the loop of UpsertPosts ran to its end without a batch error;
\* a run whose UpsertPosts returned an error, or whose context was cancelled
\* while it was in progress, has ended Failed without a metadata write.
C3_WatermarkOnlyAfterPersistence ==
    \A r \in Runs :
        /\ run[r].pc = "updmeta" =>
              \/ run[r].nFetched = 0
              \/ run[r].processedPosts = <<>>
              \/ /\ run[r].idx = Len(ValidPosts(run[r].processedPosts))
                 /\ run[r].successCount + run[r].errorCount = run[r].idx
                 /\ ~BatchFailed(run[r])
        /\ run[r].mdWrites > 0 =>
              /\ run[r].pc = "done"
              /\ ~BatchFailed(run[r])
              /\ ~run[r].cancelled
        /\ (run[r].pc = "done" /\ (BatchFailed(run[r]) \/ run[r].cancelled)) =>
              /\ run[r].result = "failed"
              /\ run[r].mdWrites = 0

\* one run was cancelled after some of its upserts had been stored, another
\* ended on the all-failed error of UpsertPosts
C3_Witness ==
    /\ \E r \in Runs :
          /\ run[r].pc = "done"
          /\ run[r].cancelled
          /\ run[r].successCount > 0
          /\ run[r].err = "updmeta"
    /\ \E r \in Runs :
          /\ run[r].pc = "done"
          /\ run[r].err = "persist"
          /\ run[r].errorCount > 0

\* C4: whenever a run advances the watermark of its source, every post of
\* that run that passed validation has a document in the posts collection.
C4_NoDataLoss ==
    [][\A r \in Runs :
          run'[r].mdWrites > run[r].mdWrites =>
              \A i \in 1..Len(run[r].processedPosts) :
                  PostDocs(posts', run[r].processedPosts[i].RedditID) # {}]_vars

\* C5: the stored last_scraped_at of a source never decreases.
C5_WatermarkMonotonic ==
    [][\A s \in Sources :
          WatermarkIn(metadata', s) >= WatermarkIn(metadata, s)]_vars

\* C6: the metadata write that ends a successful run with a non-empty fetch
\* stores the start time taken before the fetch, not the time of the write;
\* the since bound the next run resolves from it is at or before the second
\* of every time from the serving of that fetch on.
C6_WatermarkIsStartTime ==
    [][\A r \in Runs :
          (run[r].pc = "updmeta" /\ run[r].nFetched > 0
              /\ run'[r].result = "success") =>
              /\ WatermarkIn(metadata', run[r].subreddit) = run[r].scrapeStartTime
              /\ run[r].scrapeStartTime # 0
              /\ run[r].scrapeStartTime <= run[r].fetchedAt
              /\ \A t \in Times :
                    t >= run[r].fetchedAt =>
                        Unix(t) >= SinceFrom(GetSubredditMetadata(metadata',
                                                                  run[r].subreddit))]_vars

\* a run that stored posts has succeeded, and the watermark it left is its
\* start time, earlier than the time of its write
C6_Witness ==
    \E r \in Runs :
        /\ run[r].pc = "done"
        /\ run[r].result = "success"
        /\ run[r].nFetched > 0
        /\ run[r].keysWritten # {}
        /\ \E d \in MetaDocs(metadata, run[r].subreddit) :
              /\ d.last_scraped_at = run[r].scrapeStartTime
              /\ d.last_scraped_at < d.updated_at
              /\ SinceFrom(<<d>>) > 0

\* the document d holds the insertion time of the first upsert of its key and
\* every other field as the last upsert of that key gave it
FirstAndLast(d, h) ==
    /\ d.inserted_at = h.first
    /\ d.title = h.last.Title
    /\ d.body = h.last.Body
    /\ d.author = h.last.Author
    /\ d.score = h.last.Score
    /\ d.url = h.last.URL
    /\ d.flair = h.last.Flair
    /\ d.subreddit = h.last.Subreddit
    /\ d.created_at = h.last.CreatedAt
    /\ d.updated_at = h.last.UpdatedAt

\* C7: after any sequence of successful upserts of a reddit_id, by UpsertPost
\* or by the loop of UpsertPosts, the collection holds one document of that
\* id, with inserted_at as the first upsert set it and every other field as
\* the last upsert set it; an id never upserted has no document.
C7_IdempotentUpsert ==
    \A k \in Keys :
        IF hist[k].seen
        THEN \E d \in posts : PostDocs(posts, k) = {d} /\ FirstAndLast(d, hist[k])
        ELSE PostDocs(posts, k) = {}

\* an id was upserted by UpsertPost and by a run, the last upsert offering
\* another inserted_at and another title than the stored insertion had
C7_Witness ==
    \E k \in Keys, d \in posts :
        /\ hist[k].seen
        /\ d.reddit_id = k
        /\ hist[k].last.InsertedAt # d.inserted_at
        /\ d.updated_at > d.inserted_at
        /\ apiCalls > 0
        /\ k \in run[1].keysWritten

\* C8: the posts collection never holds two documents of one reddit_id.
C8_UniqueNaturalKey ==
    \A d1, d2 \in posts : d1.reddit_id = d2.reddit_id => d1 = d2

\* two runs in progress together, for different sources, have both stored
\* the same reddit_id
C8_Witness ==
    \E r1, r2 \in Runs :
        /\ r1 \in run[r2].overlapped
        /\ run[r1].subreddit # run[r2].subreddit
        /\ run[r1].keysWritten \cap run[r2].keysWritten # {}
        /\ Cardinality(posts) = 2

\* C9: when two runs for the same source were in progress together and both
\* stored a reddit_id, the collection holds one document of it, with
\* inserted_at as the first upsert to reach the store set it and every other
\* field as the last upsert to reach the store set it.
C9_OverlapLeavesStoreSound ==
    \A r1, r2 \in Runs :
        (r1 \in run[r2].overlapped /\ run[r1].subreddit = run[r2].subreddit) =>
            \A k \in run[r1].keysWritten \cap run[r2].keysWritten :
                /\ Cardinality(PostDocs(posts, k)) = 1
                /\ \A d \in PostDocs(posts, k) : FirstAndLast(d, hist[k])

\* two overlapping runs for one source have both stored a reddit_id, the
\* later upsert with another title and another time than the earlier one
C9_Witness ==
    \E r1, r2 \in Runs :
        /\ r1 \in run[r2].overlapped
        /\ run[r1].subreddit = run[r2].subreddit
        /\ run[r1].pc = "done" /\ run[r2].pc = "done"
        /\ \E k \in run[r1].keysWritten \cap run[r2].keysWritten :
              \E d \in PostDocs(posts, k) :
                  /\ d.inserted_at < d.updated_at
                  /\ d.title = <<"u">>

\* C10: a step of a run changes the state of no other run and the metadata
\* document of no source but its own; the since bound a run reads comes from
\* the document of its own source, and the metadata write of a run stores the
\* start time of that run.
C10_FailureIsolation ==
    [][\A r \in Runs :
          run'[r] # run[r] =>
              /\ \A q \in Runs \ {r} : run'[q] = run[q]
              /\ (run[r].pc = "getmeta" /\ run'[r].pc = "fetch") =>
                    run'[r].sinceTimestamp =
                        IF WatermarkIn(metadata, run[r].subreddit) = 0 THEN 0
                        ELSE Unix(WatermarkIn(metadata, run[r].subreddit))
              /\ \A b \in Sources \ {run'[r].subreddit} :
                    MetaDocs(metadata', b) = MetaDocs(metadata, b)
              /\ run'[r].mdWrites > run[r].mdWrites =>
                    WatermarkIn(metadata', run[r].subreddit) = run[r].scrapeStartTime]_vars

\* of two runs in progress together for different sources, one has failed on
\* its fetch, leaving its source without watermark, and the other has stored
\* posts and succeeded, its source holding its start time
C10_Witness ==
    \E r1, r2 \in Runs :
        /\ r1 \in run[r2].overlapped
        /\ run[r1].subreddit # run[r2].subreddit
        /\ run[r1].pc = "done" /\ run[r2].pc = "done"
        /\ run[r1].result = "failed" /\ run[r1].err = "fetch"
        /\ run[r2].result = "success"
        /\ run[r2].keysWritten # {}
        /\ Watermark(run[r2].subreddit) = run[r2].scrapeStartTime
        /\ Watermark(run[r1].subreddit) = 0

\* the records of an input of UpsertPosts whose reddit_id and title are both
\* non-empty once trimmed
ValidIndexes(ps) ==
    {i \in 1..Len(ps) :
        TrimSpace(ps[i].RedditID) # <<>> /\ TrimSpace(ps[i].Title) # <<>>}

\* C11: a call of UpsertPosts that has returned: for an empty input it
\* returned nil and left the collection as it found it; for a non-empty input
\* without a record whose reddit_id and title are non-empty once trimmed it
\* returned the no-valid-posts error and left the collection as it found it;
\* otherwise it made one upsert per valid record and returned the all-failed
\* error exactly when every one of them failed, nil when at least one
\* succeeded.
C11_UpsertPostsOutcome ==
    batch.pc = "done" =>
        LET ps == batch.posts
            nValid == Cardinality(ValidIndexes(ps))
        IN  CASE ps = <<>> ->
                   /\ batch.result = "nil"
                   /\ posts = batch.before
                   /\ batch.successCount + batch.errorCount = 0
              [] ps # <<>> /\ nValid = 0 ->
                   /\ batch.result = "novalid"
                   /\ posts = batch.before
                   /\ batch.successCount + batch.errorCount = 0
              [] OTHER ->
                   /\ batch.successCount + batch.errorCount = nValid
                   /\ batch.result \in {"allfailed", "nil"}
                   /\ batch.result = "allfailed" <=> batch.errorCount = nValid
                   /\ batch.result = "nil" <=> batch.successCount >= 1
                   /\ batch.successCount = 0 => posts = batch.before

\* a second call, of two records none of them valid, has returned the
\* no-valid-posts error, the collection holding the one document an earlier
\* call stored
C11_Witness ==
    /\ batch.pc = "done"
    /\ batch.calls = 2
    /\ batch.result = "novalid"
    /\ Len(batch.posts) = 2
    /\ Cardinality(posts) = 1
    /\ \E k \in Keys : hist[k].seen /\ hist[k].last.RedditID = <<"a", "b", "d">>

\* the fetched items that pass the validity test of the processor
AcceptedIndexes(items) ==
    {i \in 1..Len(items) : Accepts(TrimSpace(items[i].ID), TrimSpace(items[i].Title))}

\* C12: when a run whose fetch returned at least one item that passes
\* validation reaches the end of its metadata write with no store call
\* failed, it ends in Success having made one successful upsert per valid
\* item: the ids it stored are the trimmed ids of the valid items, each has a
\* document, and the id of no invalid item is among them.  Inside UpsertPosts
\* a failed UpdateOne that is not the last of the batch leaves the loop at
\* the next record.
C12_BatchPartialTolerance ==
    [][\A r \in Runs :
          LET items == run[r].ingestionPosts
              valid == AcceptedIndexes(items)
          IN  /\ (run[r].pc = "updmeta" /\ valid # {} /\ run[r].errorCount = 0
                     /\ run'[r].err = "none" /\ run'[r].pc = "done") =>
                     /\ run'[r].result = "success"
                     /\ run'[r].successCount = Cardinality(valid)
                     /\ run'[r].keysWritten = {TrimSpace(items[i].ID) : i \in valid}
                     /\ Cardinality(run'[r].keysWritten) = Cardinality(valid)
                     /\ \A k \in run'[r].keysWritten : Cardinality(PostDocs(posts', k)) = 1
                     /\ \A i \in (1..Len(items)) \ valid :
                           /\ TrimSpace(items[i].ID) \notin run'[r].keysWritten
                           /\ PostDocs(posts', TrimSpace(items[i].ID)) = {}
              /\ (run[r].pc = "upsert" /\ run'[r].errorCount > run[r].errorCount
                     /\ run[r].idx < Len(ValidPosts(run[r].processedPosts))) =>
                     /\ run'[r].pc = "upsert"
                     /\ run'[r].idx = run[r].idx + 1
                     /\ posts' = posts]_vars

\* one run whose fetch returned a valid and an invalid item has succeeded
\* with one record stored and no upsert failed; another has stored the
\* second record of its batch after the upsert of the first had failed
C12_Witness ==
    /\ \E r \in Runs :
          /\ run[r].pc = "done" /\ run[r].result = "success"
          /\ run[r].nFetched = 2
          /\ run[r].successCount = 1 /\ run[r].errorCount = 0
    /\ \E r \in Runs :
          /\ run[r].nFetched = 2
          /\ run[r].successCount = 1 /\ run[r].errorCount = 1
          /\ run[r].keysWritten = {<<"a", "b", "d">>}

\* a raw item whose trimmed id is non-empty, at least three characters long
\* and free of white space of any kind, and whose trimmed title is non-empty
WellFormed(p) ==
    LET id == TrimSpace(p.ID)
    IN  /\ id # <<>>
        /\ Len(id) >= 3
        /\ \A i \in 1..Len(id) : id[i] \notin WhiteSpace
        /\ TrimSpace(p.Title) # <<>>

\* C13: what ProcessSubredditPosts made of the fetched items is one record
\* per well-formed item, in the order of the input, and nothing of any other
\* item.
C13_ValidatorAcceptance ==
    \A r \in Runs :
        run[r].ingestionPosts # <<>> =>
            LET kept == SelectSeq(run[r].ingestionPosts, WellFormed)
                out  == run[r].processedPosts
            IN  /\ Len(out) = Len(kept)
                /\ \A i \in 1..Len(kept) :
                      /\ out[i].RedditID = TrimSpace(kept[i].ID)
                      /\ out[i].Title = TrimSpace(kept[i].Title)
                      /\ out[i].Score = kept[i].Score

\* C14: every record the processing step of a run makes carries the source
\* the run is for, and every upsert of the run leaves the document of its id
\* with that source as its subreddit.
C14_SourceNameIsOwningSource ==
    [][\A r \in Runs :
          /\ (run[r].pc = "fetch" /\ run'[r].pc \in {"upsert", "updmeta"}) =>
                \A i \in 1..Len(run'[r].processedPosts) :
                    run'[r].processedPosts[i].Subreddit = run[r].subreddit
          /\ (run[r].pc = "upsert" /\ run'[r].successCount > run[r].successCount) =>
                /\ run[r].subreddit \in Sources
                /\ \A d \in PostDocs(posts', CurrentPost(run[r]).RedditID) :
                      d.subreddit = run[r].subreddit]_vars

\* two runs for different sources have stored the same id, and its document
\* names the source of the run whose upsert came last
C14_Witness ==
    \E r1, r2 \in Runs, d \in posts :
        /\ run[r1].subreddit = "a" /\ run[r2].subreddit = "b"
        /\ d.reddit_id \in run[r1].keysWritten \cap run[r2].keysWritten
        /\ d.subreddit = "b"
        /\ d.inserted_at < d.updated_at

\* the parameter is given and is a decimal number greater than zero
PositiveNumber(param) ==
    /\ param.exists
    /\ Atoi(param.str).ok
    /\ Atoi(param.str).val > 0

\* C15: a run started with a since_timestamp that is a positive number goes
\* to the fetch with that number as its since bound, reading no metadata;
\* any other run reads the metadata of its source and goes to the fetch with
\* the stored last_scraped_at, in whole seconds, when a document with one is
\* stored, and with 0 otherwise; the bound is not changed while the fetch is
\* pending; when the read returns an error the run ends Failed with no fetch
\* issued.
C15_EffectiveWatermark ==
    [][\A r \in Runs :
          LET ts == run'[r].params.since_timestamp
              s  == run[r].subreddit
          IN  /\ (run[r].pc = "idle" /\ Active(r)') =>
                    IF PositiveNumber(ts)
                    THEN /\ run'[r].pc = "fetch"
                         /\ run'[r].sinceTimestamp = Atoi(ts.str).val
                    ELSE run'[r].pc = "getmeta"
              /\ (run[r].pc = "getmeta" /\ run'[r].pc = "fetch") =>
                    /\ ~PositiveNumber(run[r].params.since_timestamp)
                    /\ run'[r].sinceTimestamp =
                          IF \E d \in metadata :
                                d.subreddit_name = s /\ d.last_scraped_at # 0
                          THEN Unix(WatermarkIn(metadata, s))
                          ELSE 0
              /\ (run[r].pc = "fetch" /\ run'[r].pc = "fetch") =>
                    run'[r].sinceTimestamp = run[r].sinceTimestamp
              /\ (run[r].pc = "getmeta" /\ run'[r].pc = "done") =>
                    /\ run'[r].result = "failed"
                    /\ run'[r].err = "getmeta"
                    /\ run'[r].fetchedAt = 0]_vars

\* a run triggered with the since_timestamp "-2" is at its fetch with the
\* watermark an earlier run of its source stored, in seconds, as since bound
C15_Witness ==
    \E r1, r2 \in Runs :
        /\ run[r1].pc = "done" /\ run[r1].mdWrites = 1
        /\ run[r2].pc = "fetch"
        /\ run[r1].subreddit = run[r2].subreddit
        /\ run[r2].params.since_timestamp = Param(<<"-", "2">>)
        /\ ~run[r2].hasManualTimestamp
        /\ run[r2].sinceTimestamp = Unix(Watermark(run[r2].subreddit))
        /\ run[r2].sinceTimestamp > 0

\* the item cap configured for a source; 0 without config
ConfiguredCap(name) ==
    IF ConfigDocs(configs, name) = {} THEN 0
    ELSE (CHOOSE d \in ConfigDocs(configs, name) : TRUE).max_posts

\* C16: a run that starts, by a schedule or by a trigger, has as its limit
\* the limit parameter when that is a positive number, otherwise the cap
\* configured for its source when that is positive, otherwise the default
\* limit of the process.
C16_EffectiveLimit ==
    [][\A r \in Runs :
          (run[r].pc = "idle" /\ Active(r)') =>
              run'[r].limit =
                  IF PositiveNumber(run'[r].params.limit)
                  THEN Atoi(run'[r].params.limit.str).val
                  ELSE IF ConfiguredCap(run'[r].subreddit) > 0
                       THEN ConfiguredCap(run'[r].subreddit)
                       ELSE DefaultLimit]_vars

\* C20: every source with a registered schedule has a stored config with
\* enabled = true.
C20_DisabledNeverScheduled ==
    \A i \in 1..Len(schedules.list) :
        \E d \in configs :
            /\ d.subreddit_name = schedules.list[i].params.subreddit
            /\ d.enabled = TRUE

\* the calls of a run whose error makes monitorSubreddit return it
CallErrors == {"getmeta", "fetch", "persist", "updmeta"}

StepOrder(pc) ==
    CASE pc = "idle" -> 0 [] pc = "getmeta" -> 1 [] pc = "fetch" -> 2
      [] pc = "upsert" -> 3 [] pc = "updmeta" -> 4 [] pc = "done" -> 5

\* C18: a run moves through its steps in the order parameters, watermark
\* read, fetch, validation, batch upsert, watermark write, never backwards;
\* an upsert of the run happens only after its fetch has returned, on a
\* record validated from what was fetched; its watermark write happens only
\* after its fetch has returned and its batch upsert, if there was one, has
\* made its last upsert.
C18_StepsInOrder ==
    [][\A r \in Runs :
          /\ StepOrder(run'[r].pc) >= StepOrder(run[r].pc)
          /\ run'[r].successCount > run[r].successCount =>
                /\ run[r].pc = "upsert"
                /\ run[r].fetchedAt # 0
                /\ run[r].processedPosts =
                      ProcessSubredditPosts(run[r].ingestionPosts, run[r].subreddit,
                                            run[r].fetchedAt)
                /\ run[r].idx = run[r].successCount + run[r].errorCount + 1
          /\ run'[r].mdWrites > run[r].mdWrites =>
                /\ run[r].pc = "updmeta"
                /\ run[r].fetchedAt # 0
                /\ run[r].scrapeStartTime <= run[r].fetchedAt
                /\ run[r].successCount + run[r].errorCount =
                      Len(ValidPosts(run[r].processedPosts))
                /\ run'[r].pc = "done"]_vars

\* a run has fetched two items, stored both and then written its watermark,
\* later than its upserts
C18_Witness ==
    \E r \in Runs, m \in metadata :
        /\ run[r].pc = "done" /\ run[r].result = "success"
        /\ run[r].nFetched = 2 /\ run[r].successCount = 2
        /\ run[r].mdWrites = 1
        /\ m.subreddit_name = run[r].subreddit
        /\ m.last_scraped_at = run[r].scrapeStartTime
        /\ \A k \in run[r].keysWritten :
              \A d \in PostDocs(posts, k) : d.updated_at < m.updated_at

\* the stored configs are those of names b, a, c, d with priorities 1, 5, 5, 0,
\* all enabled
FourConfigs ==
    /\ Cardinality(configs) = 4
    /\ \A d \in configs :
          /\ d.enabled = TRUE
          /\ d.priority = CASE d.subreddit_name = "a" -> 5
                            [] d.subreddit_name = "b" -> 1
                            [] d.subreddit_name = "c" -> 5
                            [] d.subreddit_name = "d" -> 0

\* C19: the listing of GetActiveSubredditConfigs holds every stored config
\* with enabled = true once and nothing else, each entry before the entries
\* of lower priority and, among those of its priority, before the entries
\* of later name; for the priorities 1, 5, 5, 0 of b, a, c, d it is a, c, b, d.
C19_ActiveConfigsOrdered ==
    LET listing == GetActiveSubredditConfigs(configs)
    IN  /\ \A i \in 1..Len(listing) : listing[i] \in configs /\ listing[i].enabled
        /\ \A d \in configs :
              d.enabled => Cardinality({i \in 1..Len(listing) : listing[i] = d}) = 1
        /\ \A i, j \in 1..Len(listing) :
              i < j =>
                  \/ listing[i].priority > listing[j].priority
                  \/ /\ listing[i].priority = listing[j].priority
                     /\ NameIndex(listing[i].subreddit_name)
                            < NameIndex(listing[j].subreddit_name)
        /\ FourConfigs =>
              [i \in 1..Len(listing) |-> listing[i].subreddit_name]
                  = <<"a", "c", "b", "d">>

\* RegisterTasks has listed the configs of b, a, c, d with priorities 1, 5, 5, 0
\* and registered their schedules in the order a, c, b, d
C19_Witness ==
    /\ FourConfigs
    /\ schedules.state = "registered"
    /\ [i \in 1..Len(schedules.list) |-> schedules.list[i].params.subreddit]
           = <<"a", "c", "b", "d">>

\* C21: a step that removes a config removes the one document of one name
\* and leaves every other config, every metadata document, every post and
\* every run as they were; a run whose source has no config reads its since
\* bound from the metadata document of its source as any other run does.
C21_DeleteConfigNoCascade ==
    [][/\ Cardinality(configs') < Cardinality(configs) =>
             /\ \E n \in Sources :
                   /\ Cardinality(ConfigDocs(configs, n)) = 1
                   /\ configs' = configs \ ConfigDocs(configs, n)
             /\ metadata' = metadata
             /\ posts' = posts
             /\ run' = run
       /\ \A r \in Runs :
             (run[r].pc = "getmeta" /\ run'[r].pc = "fetch"
                 /\ ConfigDocs(configs, run[r].subreddit) = {}) =>
                 run'[r].sinceTimestamp =
                     IF MetaDocs(metadata, run[r].subreddit) = {} THEN 0
                     ELSE Unix(WatermarkIn(metadata, run[r].subreddit))]_vars

\* the config of a scheduled source is gone while its watermark and a post
\* of it are stored, and a later run for it is at its fetch with that
\* watermark, in seconds, as since bound
C21_Witness ==
    \E r \in Runs, i \in 1..Len(schedules.list) :
        /\ schedules.list[i].params.subreddit = run[r].subreddit
        /\ ConfigDocs(configs, run[r].subreddit) = {}
        /\ Watermark(run[r].subreddit) # 0
        /\ \E d \in posts : d.subreddit = run[r].subreddit
        /\ run[r].pc = "fetch"
        /\ run[r].sinceTimestamp = Unix(Watermark(run[r].subreddit))
        /\ run[r].sinceTimestamp > 0


\* C22: a call of UpsertPost with a post whose reddit_id or title is empty
\* returns the validation error and leaves the posts collection as it was.
C22_UpsertPostValidation ==
    [][ (apiCalls' > apiCalls /\ reply'.op = "UpsertPost"
            /\ (reply'.post.RedditID = <<>> \/ reply'.post.Title = <<>>))
        => (reply'.err = "invalid" /\ posts' = posts /\ hist' = hist) ]_vars

\* an UpsertPost call with an empty reddit_id was rejected while the collection
\* already held a post
C22_Witness ==
    /\ reply.op = "UpsertPost"
    /\ reply.post.RedditID = <<>>
    /\ reply.err = "invalid"
    /\ posts # {}


\* C23: GetRecentPosts(subreddit, hours) returns exactly the stored posts of
\* that subreddit whose created_at is at or after the cutoff or whose updated_at
\* is at or after the cutoff, each once; so a post created before the cutoff and
\* upserted again after it is returned.
C23_RecentPosts ==
    [][ (reply' # reply /\ reply'.op = "GetRecentPosts" /\ reply'.err = "nil")
        => LET out    == reply'.posts
               cutoff == now - reply'.hours * TicksPerHour
           IN  /\ \A d \in posts :
                     (\E i \in 1..Len(out) : out[i] = d)
                         <=> /\ d.subreddit = reply'.subreddit
                             /\ d.created_at >= cutoff \/ d.updated_at >= cutoff
               /\ \A i \in 1..Len(out) : out[i] \in posts
               /\ \A i, j \in 1..Len(out) : i # j => out[i] # out[j] ]_vars

\* GetRecentPosts returned a post that was created before the cutoff and
\* upserted at or after it, and left out a post of the subreddit that was
\* neither created nor upserted since the cutoff
C23_Witness ==
    /\ reply.op = "GetRecentPosts"
    /\ reply.err = "nil"
    /\ \E i \in 1..Len(reply.posts) :
           /\ reply.posts[i].created_at < now - reply.hours * TicksPerHour
           /\ reply.posts[i].updated_at >= now - reply.hours * TicksPerHour
    /\ \E d \in posts :
           /\ d.subreddit = reply.subreddit
           /\ \A i \in 1..Len(reply.posts) : reply.posts[i] # d


\* C24: the metadata write overwrites last_scraped_at without comparing it
\* with the stored value: when a run r that took its start time t1 was still in
\* progress as a run q of the same subreddit started, q took the later start
\* time t2 and has made its metadata write, then the write of r leaves t1 as
\* the stored last_scraped_at of the subreddit.
C24_OverlapRegression ==
    [][\A r, q \in Runs :
          (/\ r # q
           /\ run[r].pc = "updmeta"
           /\ run'[r].mdWrites > run[r].mdWrites
           /\ run[q].pc = "done"
           /\ run[q].mdWrites > 0
           /\ r \in run[q].overlapped
           /\ run[q].subreddit = run[r].subreddit
           /\ run[r].scrapeStartTime < run[q].scrapeStartTime) =>
              /\ run'[r].result = "success"
              /\ WatermarkIn(metadata', run[r].subreddit) = run[r].scrapeStartTime
              /\ WatermarkIn(metadata', run[r].subreddit) < run[q].scrapeStartTime]_vars

\* two overlapping runs of one subreddit have both succeeded, and the stored
\* last_scraped_at is the start time of the one that started earlier
C24_Witness ==
    \E r, q \in Runs :
        /\ r # q
        /\ run[r].result = "success"
        /\ run[q].result = "success"
        /\ r \in run[q].overlapped
        /\ run[r].subreddit = run[q].subreddit
        /\ run[r].scrapeStartTime < run[q].scrapeStartTime
        /\ Watermark(run[r].subreddit) = run[r].scrapeStartTime
        /\ \A d \in MetaDocs(metadata, run[r].subreddit) :
               d.updated_at >= run[q].scrapeStartTime


\* C25: a run makes at most one metadata write, and it is the last thing the
\* run does to the store: the write ends the run in Success, a run that has
\* ended does nothing more, a run that ended Failed on GetSubredditMetadata,
\* GetSubredditPosts or UpsertPosts has made no metadata write, and a run that
\* ended in Success has made exactly one, which left the start time of the run
\* as last_scraped_at of the run's subreddit and touched no other document.
C25_SingleWatermarkWrite ==
    /\ [](\A r \in Runs :
             /\ run[r].mdWrites <= 1
             /\ run[r].mdWrites > 0 => (run[r].pc = "done" /\ run[r].result = "success")
             /\ (run[r].pc = "done" /\ run[r].result = "failed"
                    /\ run[r].err \in {"getmeta", "fetch", "persist"}) =>
                    run[r].mdWrites = 0
             /\ (run[r].pc = "done" /\ run[r].result = "success") =>
                    run[r].mdWrites = 1)
    /\ [][\A r \in Runs :
             /\ run'[r].mdWrites > run[r].mdWrites =>
                   /\ run[r].pc = "updmeta"
                   /\ run'[r].pc = "done"
                   /\ posts' = posts
                   /\ WatermarkIn(metadata', run[r].subreddit) = run[r].scrapeStartTime
                   /\ \A d \in metadata :
                         d.subreddit_name # run[r].subreddit => d \in metadata'
                   /\ \A d \in metadata' :
                         d.subreddit_name # run[r].subreddit => d \in metadata
             /\ run[r].pc = "done" => run'[r] = run[r]]_vars
    /\ [][metadata' # metadata =>
             \E r \in Runs : run'[r].mdWrites > run[r].mdWrites]_vars

\* one run ended Failed on the metadata read and wrote nothing; another stored
\* a post, succeeded, and its single write left its start time as the stored
\* last_scraped_at of its subreddit
C25_Witness ==
    \E r, q \in Runs :
        /\ run[r].pc = "done"
        /\ run[r].err = "getmeta"
        /\ run[r].mdWrites = 0
        /\ run[q].pc = "done"
        /\ run[q].result = "success"
        /\ run[q].mdWrites = 1
        /\ run[q].keysWritten # {}
        /\ Watermark(run[q].subreddit) = run[q].scrapeStartTime


\* every item of the sequence fails the validity tests of the processor
AllRejected(items) ==
    \A i \in 1..Len(items) :
        ~Accepts(TrimSpace(items[i].ID), TrimSpace(items[i].Title))

\* C26: when the fetch of a run returns at least one item and the processor
\* rejects every item, UpsertPosts returns nil for the empty input and stores
\* nothing, the metadata write is next, and that write, unless
\* UpsertSubredditMetadata itself returns an error, ends the run in Success
\* with its start time as the stored last_scraped_at.  Whatever was fetched,
\* every post the processor lets through passes the filter of UpsertPosts, so
\* the step that takes the fetch never ends the run on the error of
\* UpsertPosts.
C26_AllInvalidFetchSucceeds ==
    [][\A r \in Runs :
          /\ (run[r].pc = "fetch" /\ run'[r].nFetched > 0
                 /\ AllRejected(run'[r].ingestionPosts)) =>
                 /\ run'[r].pc = "updmeta"
                 /\ run'[r].processedPosts = <<>>
                 /\ posts' = posts
                 /\ metadata' = metadata
          /\ (run[r].pc = "updmeta" /\ run[r].nFetched > 0
                 /\ AllRejected(run[r].ingestionPosts) /\ run'[r].pc = "done") =>
                 \/ /\ run'[r].err = "updmeta"
                    /\ run'[r].result = "failed"
                    /\ metadata' = metadata
                 \/ /\ run'[r].err = "none"
                    /\ run'[r].result = "success"
                    /\ WatermarkIn(metadata', run[r].subreddit) = run[r].scrapeStartTime
                    /\ run'[r].keysWritten = {}
                    /\ posts' = posts
          /\ run[r].pc = "fetch" =>
                 /\ run'[r].err # "persist"
                 /\ Len(ValidPosts(run'[r].processedPosts)) = Len(run'[r].processedPosts)]_vars

\* a run whose fetch returned two items, both rejected, has succeeded with
\* nothing stored, and the stored last_scraped_at is its start time
C26_Witness ==
    \E r \in Runs :
        /\ run[r].pc = "done"
        /\ run[r].result = "success"
        /\ run[r].nFetched = 2
        /\ run[r].successCount = 0
        /\ run[r].errorCount = 0
        /\ posts = {}
        /\ Watermark(run[r].subreddit) = run[r].scrapeStartTime
        /\ run[r].scrapeStartTime # 0


\* C27: a run started with a since_timestamp that is a positive number takes
\* its start time at once and goes to the fetch, never to the read of the
\* metadata; when any run, with or without such a since_timestamp, ends in
\* Success, its metadata write leaves the start time of the run, not the
\* since_timestamp, as the stored last_scraped_at of its subreddit.
C27_OverrideStillWritesWatermark ==
    [][\A r \in Runs :
          /\ (run[r].pc = "idle" /\ Active(r)'
                 /\ PositiveNumber(run'[r].params.since_timestamp)) =>
                 /\ run'[r].hasManualTimestamp
                 /\ run'[r].pc = "fetch"
                 /\ run'[r].scrapeStartTime = now
                 /\ metadata' = metadata
          /\ run[r].hasManualTimestamp => run'[r].pc # "getmeta"
          /\ (run[r].pc = "updmeta" /\ run'[r].result = "success") =>
                 /\ run'[r].mdWrites = 1
                 /\ WatermarkIn(metadata', run[r].subreddit) = run[r].scrapeStartTime
                 /\ metadata' = UpsertSubredditMetadata(metadata,
                        [SubredditName |-> run[r].subreddit,
                         LastScrapedAt |-> run[r].scrapeStartTime,
                         MonitorConfig |-> [enabled |-> TRUE,
                                            max_posts |-> run[r].limit]], now)]_vars

\* a run triggered with the since_timestamp "12" has succeeded after a run
\* of the same subreddit had stored an earlier watermark, and the stored
\* last_scraped_at is now the start time of the triggered run
C27_Witness ==
    \E r, q \in Runs :
        /\ run[q].result = "success"
        /\ ~run[q].hasManualTimestamp
        /\ run[r].result = "success"
        /\ run[r].hasManualTimestamp
        /\ run[r].sinceTimestamp = 12
        /\ run[r].subreddit = run[q].subreddit
        /\ r \notin run[q].overlapped
        /\ q \notin run[r].overlapped
        /\ run[q].scrapeStartTime < run[r].scrapeStartTime
        /\ Watermark(run[r].subreddit) = run[r].scrapeStartTime

====
